---------------------------- MODULE Spec2Model ----------------------------
(***************************************************************************)
(* Model of the sign-off action (loopsocial/sign-off-action): one run of   *)
(* run() over the issue that triggered it.                                 *)
(*                                                                         *)
(* Spec follows the revision of the action that fetches the issue, matches *)
(* the approval label by prefix, accepts release and hotfix branches and   *)
(* uploads the sign-off metadata (run, handleReleaseSignedOff,             *)
(* handleReleaseCancelled).  Each awaited call is one step: the request is *)
(* issued and is answered with success or with an error.                   *)
(*                                                                         *)
(* Text is modelled as a sequence of one-character strings, so that the    *)
(* regular expressions of parseIssueBody, String.startsWith and the        *)
(* template literals of the Slack payloads are computed, not assumed.      *)
(* A pattern item of two characters ("\\s", "\\d") is a character class.   *)
(*                                                                         *)
(* SpecRevisions adds one run of each of the two earlier revisions, which  *)
(* read labels and body from the event context, test the exact label       *)
(* "QA Approved", create a draft release and delete the release branch on  *)
(* rejection (labelExists revision, validateIssueLabels revision).         *)
(***************************************************************************)
EXTENDS Integers, Sequences, FiniteSets, TLC

\* ------------------------------------------------------------ bounds
\* Longest sequence number (digits after the dot) written in an issue body.
MaxSeqDigits == 2
\* Most "-hotfix" suffixes written after a tag or a branch in an issue body.
MaxHotfix == 1
\* Release ids the tracker may hand out are 1..MaxReleaseId.
MaxReleaseId == 2

\* ------------------------------------------------------------ text
RC_LABEL == <<"R", "C">>

APPROVED_LABEL_PREFIX == <<"Q", "A", " ", "A", "p", "p", "r", "o", "v", "e", "d">>

Digits == {"0", "1", "2", "3", "4", "5", "6", "7", "8", "9"}

\* What \s matches among the characters the bodies are written with.
Whitespace == {" ", "\n", "\t"}

\* One pattern item against one character: \s, \d, the unescaped dot
\* (written "[^\\n]": any character but a line terminator), or the character
\* itself.
IsItem(c, item) ==
  IF item = "\\s" THEN c \in Whitespace
  ELSE IF item = "\\d" THEN c \in Digits
  ELSE IF item = "[^\\n]" THEN c # "\n"
  ELSE c = item

\* The items match the text at position i, one character per item.
MatchSeq(s, i, items) ==
  /\ i >= 1
  /\ i + Len(items) - 1 <= Len(s)
  /\ \A k \in 1..Len(items) : IsItem(s[i + k - 1], items[k])

\* Characters consumed at position j by the greedy group (lit)*.
RECURSIVE StarLen(_, _, _)
StarLen(s, j, lit) ==
  IF MatchSeq(s, j, lit) THEN Len(lit) + StarLen(s, j + Len(lit), lit) ELSE 0

\* String.prototype.startsWith
StartsWith(s, prefix) ==
  /\ Len(prefix) <= Len(s)
  /\ SubSeq(s, 1, Len(prefix)) = prefix

\* String.prototype.includes
Includes(s, part) ==
  \E i \in 1..(Len(s) - Len(part) + 1) : SubSeq(s, i, i + Len(part) - 1) = part

NoMatch == <<"null">>

\* Every way the pattern  head ( (alt1|alt2|..) (star)* )  matches the text:
\* the position, the alternative, and capture group 1 with the star group
\* taken greedily.
RegexMatches(s, head, alts, star) ==
  { [index |-> x[1], alt |-> x[2],
     capture |-> SubSeq(s, x[1] + Len(head),
                        x[1] + Len(head) + Len(alts[x[2]]) - 1
                          + StarLen(s, x[1] + Len(head) + Len(alts[x[2]]), star))] :
    x \in { y \in (1..Len(s)) \X (1..Len(alts)) :
              MatchSeq(s, y[1], head \o alts[y[2]]) } }

\* String.prototype.match without the g flag: capture group 1 of the leftmost
\* match, the alternatives tried in order; NoMatch (null) when there is none.
RegexMatch(s, head, alts, star) ==
  IF RegexMatches(s, head, alts, star) = {} THEN NoMatch
  ELSE (CHOOSE m \in RegexMatches(s, head, alts, star) :
          \A n \in RegexMatches(s, head, alts, star) :
            \/ m.index < n.index
            \/ (m.index = n.index /\ m.alt <= n.alt)).capture

D8 == <<"\\d", "\\d", "\\d", "\\d", "\\d", "\\d", "\\d", "\\d">>

HotfixSuffix == <<"-", "h", "o", "t", "f", "i", "x">>

\* /-\sRelease\stag:\s(v\d{8}\.\d(-hotfix)*)/
tagRegexHead ==
  <<"-", "\\s", "R", "e", "l", "e", "a", "s", "e", "\\s", "t", "a", "g", ":", "\\s">>

tagRegexValue == << <<"v">> \o D8 \o <<".", "\\d">> >>

\* /-\sBranch:\s((release|hotfix)\/v\d{8}\.\d(-hotfix)*)/
branchRegexHead == <<"-", "\\s", "B", "r", "a", "n", "c", "h", ":", "\\s">>

branchRegexValue ==
  << <<"r", "e", "l", "e", "a", "s", "e", "/", "v">> \o D8 \o <<".", "\\d">>,
     <<"h", "o", "t", "f", "i", "x", "/", "v">> \o D8 \o <<".", "\\d">> >>

tagMatch(body) == RegexMatch(body, tagRegexHead, tagRegexValue, HotfixSuffix)

branchMatch(body) == RegexMatch(body, branchRegexHead, branchRegexValue, HotfixSuffix)

\* The message of an Error is a sequence of text chunks (a template literal's
\* fixed part, then the characters substituted into it).
InputError(key) == <<"Input \"", key, "\" was not defined">>

RCError == <<"Issue does not have \"RC\" label">>

TagError(body) == <<"No \"Release tag\" found in issue body:\n">> \o body

BranchError(body) == <<"No \"Branch\" found in issue body:\n">> \o body

\* Mutant: the branch is looked for before the tag.
parseIssueBody_branchFirst(body) ==
  IF branchMatch(body) = NoMatch
    THEN [threw |-> TRUE, message |-> BranchError(body), tag |-> <<>>, branch |-> <<>>]
  ELSE IF tagMatch(body) = NoMatch
    THEN [threw |-> TRUE, message |-> TagError(body), tag |-> <<>>, branch |-> <<>>]
  ELSE [threw |-> FALSE, message |-> <<>>, tag |-> tagMatch(body),
        branch |-> branchMatch(body)]

\* parseIssueBody(body): the thrown error, or the tag and the branch.
parseIssueBody(body) ==
  IF tagMatch(body) = NoMatch
    THEN [threw |-> TRUE, message |-> TagError(body), tag |-> <<>>, branch |-> <<>>]
  ELSE IF branchMatch(body) = NoMatch
    THEN [threw |-> TRUE, message |-> BranchError(body), tag |-> <<>>, branch |-> <<>>]
  ELSE [threw |-> FALSE, message |-> <<>>, tag |-> tagMatch(body),
        branch |-> branchMatch(body)]


\* ------------------------------------------------------------ inputs
RECURSIVE Repeat(_, _)
Repeat(lit, n) == IF n <= 0 THEN <<>> ELSE lit \o Repeat(lit, n - 1)

\* A sequence number of n digits: 1, 12, 122, ..
SeqNumber(n) == [k \in 1..n |-> IF k = 1 THEN "1" ELSE "2"]

\* v20240115.<n digits> followed by h "-hotfix" suffixes
TagText(n, h) ==
  <<"v", "2", "0", "2", "4", "0", "1", "1", "5", ".">> \o SeqNumber(n)
    \o Repeat(HotfixSuffix, h)

TagLinePrefix ==
  <<"-", " ", "R", "e", "l", "e", "a", "s", "e", " ", "t", "a", "g", ":", " ">>

BranchLinePrefix == <<"-", " ", "B", "r", "a", "n", "c", "h", ":", " ">>

BranchKinds ==
  { <<"r", "e", "l", "e", "a", "s", "e">>, <<"h", "o", "t", "f", "i", "x">> }

\* The tag lines an issue body may carry: none, one with a date that is too
\* short, one with no sequence number, one written with tabs, and the
\* well-formed ones.
TagLines ==
  { <<>>,
    TagLinePrefix \o <<"v", "2", "0", "2", "4", ".", "1">>,
    <<"-", "\t", "R", "e", "l", "e", "a", "s", "e", "\t", "t", "a", "g", ":", "\t">>
      \o TagText(1, 0) }
  \cup { TagLinePrefix \o TagText(n, h) : n \in 0..MaxSeqDigits, h \in 0..MaxHotfix }

\* The branch lines an issue body may carry: none, one of another kind of
\* branch, and the well-formed ones.
BranchLines ==
  { <<>>,
    BranchLinePrefix \o <<"f", "e", "a", "t", "u", "r", "e", "/">> \o TagText(1, 0) }
  \cup { BranchLinePrefix \o k \o <<"/">> \o TagText(n, h) :
           k \in BranchKinds, n \in 1..MaxSeqDigits, h \in 0..MaxHotfix }

\* Free text around the two lines: << before, between, after >>.
Surroundings ==
  { << <<>>, <<"\n">>, <<>> >>,
    << <<"N", "o", "t", "e", "s", ":", "\n">>, <<"\n", "\n">>,
       <<" ", "(", "f", "i", "n", "a", "l", ")", "\n">> >> }

Bodies ==
  { x[1] \o t \o x[2] \o b \o x[3] : t \in TagLines, b \in BranchLines,
                                      x \in Surroundings }

LabelSets ==
  { {},
    { RC_LABEL },
    { APPROVED_LABEL_PREFIX },
    { RC_LABEL, APPROVED_LABEL_PREFIX },
    { RC_LABEL, APPROVED_LABEL_PREFIX \o <<" ", "b", "y", " ", "S", "a", "m">> },
    { RC_LABEL, <<"Q", "A">>, <<"b", "u", "g">> } }

InputValues ==
  [ {"workflow-token", "slack-webhook-url"} -> {"", "set"} ]

ReleaseIds == 1..MaxReleaseId

\* ------------------------------------------------------------ state
VARIABLES
  inputs,        \* the action's inputs, as core.getInput reads them ("" = absent)
  issue,         \* the triggering issue as the tracker holds it
  pc,            \* the statement of run() that executes next
  local,         \* run()'s constants: issue, labels, tag, branch, release id and url
  steps,         \* the statements of run() executed so far, in order
  calls,         \* every network call issued so far, in order, with its outcome
  releaseReqs,   \* the arguments of each repos.createRelease call
  assetReqs,     \* the arguments of each repos.uploadReleaseAsset call
  slackPosts,    \* the arguments of each axios.post call
  releases,      \* the releases that exist on the tracker
  assets,        \* the assets that exist on the tracker
  delivered,     \* the payloads the webhook has accepted
  thrown,        \* every error raised: the statement that raised it, its message
  setFailed      \* the argument of every core.setFailed call

vars ==
  << inputs, issue, pc, local, steps, calls, releaseReqs, assetReqs, slackPosts,
     releases, assets, delivered, thrown, setFailed >>

NoIssue == [labels |-> {}, body |-> <<>>, fetched |-> FALSE]

Init ==
  /\ inputs \in InputValues
  /\ issue \in [labels : LabelSets, body : Bodies]
  /\ pc = "getInput"
  /\ local = [issue |-> NoIssue, labels |-> {}, tag |-> <<>>, branch |-> <<>>,
              approved |-> FALSE, releaseId |-> 0, releaseUrl |-> <<>>]
  /\ steps = <<>>
  /\ calls = <<>>
  /\ releaseReqs = <<>>
  /\ assetReqs = <<>>
  /\ slackPosts = <<>>
  /\ releases = {}
  /\ assets = {}
  /\ delivered = <<>>
  /\ thrown = <<>>
  /\ setFailed = <<>>

\* ------------------------------------------------------------ helpers
\* core.getInput(key)
getInput(key) == inputs[key]

\* getLabels(labels): the names of the label objects
getLabels(labels) == labels

\* Mutant: the candidate check looks for the approval label instead of "RC".
validateReleaseCandidateIssue_approval(labels) ==
  \E label \in labels : StartsWith(label, APPROVED_LABEL_PREFIX)

\* validateReleaseCandidateIssue(labels) returns (TRUE) or throws (FALSE)
validateReleaseCandidateIssue(labels) == RC_LABEL \in labels

\* validateApprovedIssue(labels)
validateApprovedIssue(labels) ==
  \E label \in labels : StartsWith(label, APPROVED_LABEL_PREFIX)

\* Mutant: the cancelled handler also runs after the signed-off handler.
StepAfter_bothHandlers(step) ==
  CASE step = "getInput" -> "getIssue"
    [] step = "getIssue" -> "validateReleaseCandidateIssue"
    [] step = "validateReleaseCandidateIssue" -> "parseIssueBody"
    [] step = "parseIssueBody" -> "validateApprovedIssue"
    [] step = "createRelease" -> "uploadReleaseAsset"
    [] step = "uploadReleaseAsset" -> "postApproved"
    [] step = "postApproved" -> "postCancelled"
    [] step = "postCancelled" -> "done"

\* Mutant: the body is parsed before the candidate label is validated.
StepAfter_parseFirst(step) ==
  CASE step = "getInput" -> "getIssue"
    [] step = "getIssue" -> "parseIssueBody"
    [] step = "parseIssueBody" -> "validateReleaseCandidateIssue"
    [] step = "validateReleaseCandidateIssue" -> "validateApprovedIssue"
    [] step = "createRelease" -> "uploadReleaseAsset"
    [] step = "uploadReleaseAsset" -> "postApproved"
    [] step = "postApproved" -> "done"
    [] step = "postCancelled" -> "done"

\* Mutant: the approved notification is posted before the asset is uploaded.
StepAfter_notifyFirst(step) ==
  CASE step = "getInput" -> "getIssue"
    [] step = "getIssue" -> "validateReleaseCandidateIssue"
    [] step = "validateReleaseCandidateIssue" -> "parseIssueBody"
    [] step = "parseIssueBody" -> "validateApprovedIssue"
    [] step = "createRelease" -> "postApproved"
    [] step = "postApproved" -> "uploadReleaseAsset"
    [] step = "uploadReleaseAsset" -> "done"
    [] step = "postCancelled" -> "done"

\* The statement order of run(), and of the handler it calls.
StepAfter(step) ==
  CASE step = "getInput" -> "getIssue"
    [] step = "getIssue" -> "validateReleaseCandidateIssue"
    [] step = "validateReleaseCandidateIssue" -> "parseIssueBody"
    [] step = "parseIssueBody" -> "validateApprovedIssue"
    [] step = "createRelease" -> "uploadReleaseAsset"
    [] step = "uploadReleaseAsset" -> "postApproved"
    [] step = "postApproved" -> "done"
    [] step = "postCancelled" -> "done"

\* The if of run(): which handler runs.
Handler(approved) == IF approved THEN "createRelease" ELSE "postCancelled"

\* Mutant: the catch clause swallows the error.
catchError_swallow(message) == << >>

\* catch (error) { core.setFailed(error.message) }
catchError(message) == << message >>

\* Mutant: the catch clause announces a cancellation when a release exists.
Throw_compensate(step, message) ==
  /\ thrown' = Append(thrown, [at |-> step, message |-> message])
  /\ setFailed' = setFailed \o << message >>
  /\ pc' = IF releases # {} /\ step # "postCancelled" THEN "postCancelled" ELSE "done"

\* A statement throws: nothing after it runs, the catch clause reports it.
Throw(step, message) ==
  /\ thrown' = Append(thrown, [at |-> step, message |-> message])
  /\ setFailed' = setFailed \o catchError(message)
  /\ pc' = "done"

\* A statement completes.
Continue(step) ==
  /\ pc' = StepAfter(step)
  /\ UNCHANGED << thrown, setFailed >>

\* The error an HTTP client raises for a failed call.
HttpError(op) == << "request failed: ", op >>

\* Mutant: the release is created as a draft.
ReleaseRequest_draft(tag, branch) ==
  [name |-> tag, tag_name |-> tag, draft |-> TRUE, target_commitish |-> branch]

\* createRelease's arguments
ReleaseRequest(tag, branch) ==
  [name |-> tag, tag_name |-> tag, draft |-> FALSE, target_commitish |-> branch]

\* uploadReleaseAsset's arguments
AssetRequest(releaseId, iss) ==
  [release_id |-> releaseId, name |-> "sign-off-metadata.json",
   data |-> [issue |-> iss], contentType |-> "application/json"]

\* The html_url of the release the tracker created with this id.
HtmlUrl(id) == << "https://tracker/releases/", ToString(id) >>

\* The payload of the approved notification.
ApprovedMessage(tag, branch, releaseUrl) ==
  [header |-> <<"[">> \o tag \o
     <<"]", " ", "R", "e", "l", "e", "a", "s", "e", "/", "H", "o", "t", "f", "i", "x",
       " ", "a", "p", "p", "r", "o", "v", "e", "d", " ", "U+2705">>,
   text |-> <<"U+0060">> \o branch \o
     <<"U+0060", " ", "i", "s", " ", "a", "p", "p", "r", "o", "v", "e", "d", " ", "f", "o",
       "r", " ", "p", "u", "b", "l", "i", "s", "h", "i", "n", "g", ".">>,
   button |-> releaseUrl]

\* The payload of the cancelled notification (it has no button).
CancelledMessage(tag, branch) ==
  [header |-> <<"[">> \o tag \o
     <<"]", " ", "R", "e", "l", "e", "a", "s", "e", "/", "H", "o", "t", "f", "i", "x",
       " ", "c", "a", "n", "c", "e", "l", "l", "e", "d", " ", "U+274C">>,
   text |-> <<"U+0060">> \o branch \o
     <<"U+0060", " ", "w", "a", "s", " ", "c", "a", "n", "c", "e", "l", "l", "e", "d", ".">>,
   button |-> <<>>]

\* ------------------------------------------------------------ run()
\* const token = getInput("workflow-token"); const octokit = github.getOctokit(token)
GetWorkflowToken ==
  /\ pc = "getInput"
  /\ steps' = Append(steps, "getInput")
  /\ IF getInput("workflow-token") = ""
       THEN Throw("getInput", InputError("workflow-token"))
       ELSE Continue("getInput")
  /\ UNCHANGED << inputs, issue, local, calls, releaseReqs, assetReqs, slackPosts,
                  releases, assets, delivered >>

\* const issue = await getIssue(octokit); const labels = getLabels(issue.labels)
GetIssue ==
  /\ pc = "getIssue"
  /\ steps' = Append(steps, "getIssue")
  /\ \E ok \in BOOLEAN :
       /\ calls' = Append(calls, [op |-> "issues.get", ok |-> ok])
       /\ IF ok
            THEN /\ local' = [local EXCEPT
                       !.issue = [labels |-> issue.labels, body |-> issue.body,
                                  fetched |-> TRUE],
                       !.labels = getLabels(issue.labels)]
                 /\ Continue("getIssue")
            ELSE /\ Throw("getIssue", HttpError("issues.get"))
                 /\ UNCHANGED local
  /\ UNCHANGED << inputs, issue, releaseReqs, assetReqs, slackPosts, releases,
                  assets, delivered >>

\* validateReleaseCandidateIssue(labels)
ValidateReleaseCandidateIssue ==
  /\ pc = "validateReleaseCandidateIssue"
  /\ steps' = Append(steps, "validateReleaseCandidateIssue")
  /\ IF validateReleaseCandidateIssue(local.labels)
       THEN Continue("validateReleaseCandidateIssue")
       ELSE Throw("validateReleaseCandidateIssue", RCError)
  /\ UNCHANGED << inputs, issue, local, calls, releaseReqs, assetReqs, slackPosts,
                  releases, assets, delivered >>

\* const { tag, branch } = parseIssueBody(issue.body)
ParseIssueBody ==
  /\ pc = "parseIssueBody"
  /\ steps' = Append(steps, "parseIssueBody")
  /\ LET r == parseIssueBody(local.issue.body)
     IN IF r.threw
          THEN /\ Throw("parseIssueBody", r.message)
               /\ UNCHANGED local
          ELSE /\ local' = [local EXCEPT !.tag = r.tag, !.branch = r.branch]
               /\ Continue("parseIssueBody")
  /\ UNCHANGED << inputs, issue, calls, releaseReqs, assetReqs, slackPosts,
                  releases, assets, delivered >>

\* if (validateApprovedIssue(labels)) { .. } else { .. }
ValidateApprovedIssue ==
  /\ pc = "validateApprovedIssue"
  /\ steps' = Append(steps, "validateApprovedIssue")
  /\ local' = [local EXCEPT !.approved = validateApprovedIssue(local.labels)]
  /\ pc' = Handler(validateApprovedIssue(local.labels))
  /\ UNCHANGED << inputs, issue, calls, releaseReqs, assetReqs, slackPosts,
                  releases, assets, delivered, thrown, setFailed >>

\* handleReleaseSignedOff: await octokit.rest.repos.createRelease({..})
CreateRelease ==
  /\ pc = "createRelease"
  /\ steps' = Append(steps, "createRelease")
  /\ releaseReqs' = Append(releaseReqs, ReleaseRequest(local.tag, local.branch))
  /\ \/ \E id \in ReleaseIds :
          /\ calls' = Append(calls, [op |-> "repos.createRelease", ok |-> TRUE])
          /\ releases' = releases \cup
               { [id |-> id, html_url |-> HtmlUrl(id),
                  request |-> ReleaseRequest(local.tag, local.branch)] }
          /\ local' = [local EXCEPT !.releaseId = id, !.releaseUrl = HtmlUrl(id)]
          /\ Continue("createRelease")
     \/ /\ calls' = Append(calls, [op |-> "repos.createRelease", ok |-> FALSE])
        /\ Throw("createRelease", HttpError("repos.createRelease"))
        /\ UNCHANGED << releases, local >>
  /\ UNCHANGED << inputs, issue, assetReqs, slackPosts, assets, delivered >>

\* handleReleaseSignedOff: await octokit.rest.repos.uploadReleaseAsset({..})
UploadReleaseAsset ==
  /\ pc = "uploadReleaseAsset"
  /\ steps' = Append(steps, "uploadReleaseAsset")
  /\ assetReqs' = Append(assetReqs, AssetRequest(local.releaseId, local.issue))
  /\ \E ok \in BOOLEAN :
       /\ calls' = Append(calls, [op |-> "repos.uploadReleaseAsset", ok |-> ok])
       /\ IF ok
            THEN /\ assets' = assets \cup { AssetRequest(local.releaseId, local.issue) }
                 /\ Continue("uploadReleaseAsset")
            ELSE /\ Throw("uploadReleaseAsset", HttpError("repos.uploadReleaseAsset"))
                 /\ UNCHANGED assets
  /\ UNCHANGED << inputs, issue, local, releaseReqs, slackPosts, releases, delivered >>

\* postToSlack(body): const webhookUrl = getInput("slack-webhook-url");
\* await axios.post(webhookUrl, body)
postToSlack(step, body) ==
  IF getInput("slack-webhook-url") = ""
    THEN /\ Throw(step, InputError("slack-webhook-url"))
         /\ UNCHANGED << calls, slackPosts, delivered >>
    ELSE /\ slackPosts' =
              Append(slackPosts, [url |-> getInput("slack-webhook-url"), body |-> body])
         /\ \E ok \in BOOLEAN :
              /\ calls' = Append(calls, [op |-> "axios.post", ok |-> ok])
              /\ IF ok
                   THEN /\ delivered' = Append(delivered, body)
                        /\ Continue(step)
                   ELSE /\ Throw(step, HttpError("axios.post"))
                        /\ UNCHANGED delivered

\* handleReleaseSignedOff: await postToSlack({ approved message })
PostApproved ==
  /\ pc = "postApproved"
  /\ steps' = Append(steps, "postApproved")
  /\ postToSlack("postApproved",
                 ApprovedMessage(local.tag, local.branch, local.releaseUrl))
  /\ UNCHANGED << inputs, issue, local, releaseReqs, assetReqs, releases, assets >>

\* handleReleaseCancelled: await postToSlack({ cancelled message })
PostCancelled ==
  /\ pc = "postCancelled"
  /\ steps' = Append(steps, "postCancelled")
  /\ postToSlack("postCancelled", CancelledMessage(local.tag, local.branch))
  /\ UNCHANGED << inputs, issue, local, releaseReqs, assetReqs, releases, assets >>

Next ==
  \/ GetWorkflowToken
  \/ GetIssue
  \/ ValidateReleaseCandidateIssue
  \/ ParseIssueBody
  \/ ValidateApprovedIssue
  \/ CreateRelease
  \/ UploadReleaseAsset
  \/ PostApproved
  \/ PostCancelled

Spec == Init /\ [][Next]_vars

\* Every awaited call is answered and the event loop runs each continuation.
FairSpec == Spec /\ WF_vars(Next)

\* ------------------------------------------------------------ earlier revisions
\* Two earlier revisions of run() read labels and body from github.context,
\* match the label "QA Approved" exactly, create the release as a draft and
\* delete the release branch when the sign-off is rejected:
\*   "labelExists"          validateReleaseCandidateIssue, then the two handlers
\*                          handleReleaseSignedOff and handleReleaseCancelled,
\*                          each behind its own label test;
\*   "validateIssueLabels"  validateIssueLabels, createRelease,
\*                          postReleaseApproved, then deleteReleaseBranch.
\* Their statements carry the revision's name in pc and in steps.
EarlyRevisions == {"labelExists", "validateIssueLabels"}

PcOf(rev, step) == IF step = "done" THEN "done" ELSE rev \o ":" \o step

QA_APPROVED == <<"Q", "A", " ", "A", "p", "p", "r", "o", "v", "e", "d">>

\* labelExists(name) / labelNames.includes(name) over github.context's issue
labelExists(name) == name \in issue.labels

QAApprovedError == <<"Issue does not have \"QA Approved\" label">>

EarlyTagError == <<"No \"Release Tag\" found in issue body">>

EarlyBranchError == <<"No \"Branch\" found in issue body">>

\* postToSlack refers to octokit, which is a constant of run() and not in the
\* scope of postToSlack.
OctokitError == <<"octokit is not defined">>

\* ^ under the m flag: the start of the text or of a line.
LineStart(s, i) == i = 1 \/ (i > 1 /\ i <= Len(s) + 1 /\ s[i - 1] = "\n")

\* $ under the m flag: the end of the text or of a line, after position j.
LineEnd(s, j) == j = Len(s) \/ (j < Len(s) /\ s[j + 1] = "\n")

\* Characters consumed at position j by the greedy [0-9]+ continuing a digit.
RECURSIVE PlusLen(_, _)
PlusLen(s, j) ==
  IF j >= 1 /\ j <= Len(s) /\ s[j] \in Digits THEN 1 + PlusLen(s, j + 1) ELSE 0

\* /^-\sRelease\stag:\s(v[0-9]{8}.[0-9])$/m
earlyTagRegexValue == <<"v">> \o D8 \o <<"[^\\n]", "\\d">>

\* /^-\sBranch:\s(release\/v[0-9]{8}.[0-9]+)$/m
earlyBranchRegexValue ==
  <<"r", "e", "l", "e", "a", "s", "e", "/", "v">> \o D8 \o <<"[^\\n]", "\\d">>

\* body.match of a pattern  ^ head ( value [0-9]* ) $  with the m flag (more
\* digits only when plus): capture group 1 of the leftmost match, or NoMatch.
AnchoredMatches(s, head, value, plus) ==
  { [index |-> x[1], capture |-> SubSeq(s, x[1] + Len(head), x[2])] :
    x \in { y \in (1..Len(s)) \X (1..Len(s)) :
              /\ LineStart(s, y[1])
              /\ MatchSeq(s, y[1], head \o value)
              /\ y[2] = y[1] + Len(head) + Len(value) - 1
                   + (IF plus THEN PlusLen(s, y[1] + Len(head) + Len(value)) ELSE 0)
              /\ LineEnd(s, y[2]) } }

AnchoredMatch(s, head, value, plus) ==
  IF AnchoredMatches(s, head, value, plus) = {} THEN NoMatch
  ELSE (CHOOSE m \in AnchoredMatches(s, head, value, plus) :
          \A n \in AnchoredMatches(s, head, value, plus) : m.index <= n.index).capture

earlyTagMatch(body) == AnchoredMatch(body, tagRegexHead, earlyTagRegexValue, FALSE)

earlyBranchMatch(body) ==
  AnchoredMatch(body, branchRegexHead, earlyBranchRegexValue, TRUE)

\* parseIssueBody() of the earlier revisions
earlyParseIssueBody(body) ==
  IF earlyTagMatch(body) = NoMatch
    THEN [threw |-> TRUE, message |-> EarlyTagError, tag |-> <<>>, branch |-> <<>>]
  ELSE IF earlyBranchMatch(body) = NoMatch
    THEN [threw |-> TRUE, message |-> EarlyBranchError, tag |-> <<>>, branch |-> <<>>]
  ELSE [threw |-> FALSE, message |-> <<>>, tag |-> earlyTagMatch(body),
        branch |-> earlyBranchMatch(body)]

EarlyInputValues == [ {"github-token"} -> {"", "set"} ]

\* The state when an earlier revision starts: the issue is the one
\* github.context carries, nothing is fetched.
InitEarly ==
  /\ inputs \in EarlyInputValues
  /\ issue \in [labels : LabelSets, body : Bodies]
  /\ pc \in { PcOf(rev, "getInput") : rev \in EarlyRevisions }
  /\ local = [issue |-> NoIssue, labels |-> {}, tag |-> <<>>, branch |-> <<>>,
              approved |-> FALSE, releaseId |-> 0, releaseUrl |-> <<>>]
  /\ steps = <<>>
  /\ calls = <<>>
  /\ releaseReqs = <<>>
  /\ assetReqs = <<>>
  /\ slackPosts = <<>>
  /\ releases = {}
  /\ assets = {}
  /\ delivered = <<>>
  /\ thrown = <<>>
  /\ setFailed = <<>>

\* Mutant: the cancelled notification is posted before the branch is deleted.
StepAfterEarly_notifyFirst(rev, step) ==
  CASE step = "getInput" ->
         IF rev = "labelExists" THEN "validateReleaseCandidateIssue"
         ELSE "validateIssueLabels"
    [] step = "validateReleaseCandidateIssue" -> "parseIssueBody"
    [] step = "validateIssueLabels" -> "parseIssueBody"
    [] step = "parseIssueBody" ->
         IF rev = "labelExists" THEN "handleReleaseSignedOff" ELSE "createRelease"
    [] step = "createRelease" -> "postApproved"
    [] step = "postApproved" -> "handleReleaseCancelled"
    [] step = "postCancelled" -> "deleteRef"
    [] step = "deleteRef" -> "done"

\* The statement order of the earlier revisions' run() and handlers.
StepAfterEarly(rev, step) ==
  CASE step = "getInput" ->
         IF rev = "labelExists" THEN "validateReleaseCandidateIssue"
         ELSE "validateIssueLabels"
    [] step = "validateReleaseCandidateIssue" -> "parseIssueBody"
    [] step = "validateIssueLabels" -> "parseIssueBody"
    [] step = "parseIssueBody" ->
         IF rev = "labelExists" THEN "handleReleaseSignedOff" ELSE "createRelease"
    [] step = "createRelease" -> "postApproved"
    [] step = "postApproved" -> "handleReleaseCancelled"
    [] step = "deleteRef" -> "postCancelled"
    [] step = "postCancelled" -> "done"

\* The first statement inside the rejected handler's if.
CancelledFirst(rev) ==
  IF StepAfterEarly(rev, "deleteRef") = "postCancelled" THEN "deleteRef"
  ELSE "postCancelled"

ContinueEarly(rev, step) ==
  /\ pc' = PcOf(rev, StepAfterEarly(rev, step))
  /\ UNCHANGED << thrown, setFailed >>

\* Mutant: the approved handler acts whatever the labels are.
SignedOffGuard_always == TRUE

\* handleReleaseSignedOff: if (labelExists('QA Approved')) { .. }
SignedOffGuard == labelExists(QA_APPROVED)

\* handleReleaseCancelled: if (!labelExists('QA Approved')) { .. }
\* deleteReleaseBranch: if (includes('RC') && !includes('QA Approved')) { .. }
CancelledGuard(rev) ==
  IF rev = "labelExists" THEN ~labelExists(QA_APPROVED)
  ELSE labelExists(RC_LABEL) /\ ~labelExists(QA_APPROVED)

\* createRelease's arguments in the earlier revisions
DraftReleaseRequest(tag, branch) ==
  [name |-> tag, tag_name |-> tag, draft |-> TRUE, target_commitish |-> branch]

\* ref: `heads/${branch}`
HeadsRef(branch) == <<"h", "e", "a", "d", "s", "/">> \o branch

\* const token = getInput('github-token'); const octokit = github.getOctokit(token)
EarlyGetToken ==
  \E rev \in EarlyRevisions :
    /\ pc = PcOf(rev, "getInput")
    /\ steps' = Append(steps, pc)
    /\ IF getInput("github-token") = ""
         THEN Throw(pc, InputError("github-token"))
         ELSE ContinueEarly(rev, "getInput")
    /\ UNCHANGED << inputs, issue, local, calls, releaseReqs, assetReqs, slackPosts,
                    releases, assets, delivered >>

\* validateReleaseCandidateIssue() of the labelExists revision
EarlyValidateReleaseCandidateIssue ==
  /\ pc = PcOf("labelExists", "validateReleaseCandidateIssue")
  /\ steps' = Append(steps, pc)
  /\ IF labelExists(RC_LABEL)
       THEN ContinueEarly("labelExists", "validateReleaseCandidateIssue")
       ELSE Throw(pc, RCError)
  /\ UNCHANGED << inputs, issue, local, calls, releaseReqs, assetReqs, slackPosts,
                  releases, assets, delivered >>

\* validateIssueLabels(): both 'RC' and 'QA Approved' are required
EarlyValidateIssueLabels ==
  /\ pc = PcOf("validateIssueLabels", "validateIssueLabels")
  /\ steps' = Append(steps, pc)
  /\ IF ~labelExists(RC_LABEL) THEN Throw(pc, RCError)
     ELSE IF ~labelExists(QA_APPROVED) THEN Throw(pc, QAApprovedError)
     ELSE ContinueEarly("validateIssueLabels", "validateIssueLabels")
  /\ UNCHANGED << inputs, issue, local, calls, releaseReqs, assetReqs, slackPosts,
                  releases, assets, delivered >>

\* const { tag, branch } = parseIssueBody()
EarlyParseIssueBody ==
  \E rev \in EarlyRevisions :
    /\ pc = PcOf(rev, "parseIssueBody")
    /\ steps' = Append(steps, pc)
    /\ IF earlyParseIssueBody(issue.body).threw
         THEN /\ Throw(pc, earlyParseIssueBody(issue.body).message)
              /\ UNCHANGED local
         ELSE /\ local' = [local EXCEPT !.tag = earlyParseIssueBody(issue.body).tag,
                                        !.branch = earlyParseIssueBody(issue.body).branch]
              /\ ContinueEarly(rev, "parseIssueBody")
    /\ UNCHANGED << inputs, issue, calls, releaseReqs, assetReqs, slackPosts,
                    releases, assets, delivered >>

\* await handleReleaseSignedOff(octokit, tag, branch): its label test
EarlyHandleReleaseSignedOff ==
  /\ pc = PcOf("labelExists", "handleReleaseSignedOff")
  /\ steps' = Append(steps, pc)
  /\ local' = [local EXCEPT !.approved = SignedOffGuard]
  /\ pc' = IF SignedOffGuard THEN PcOf("labelExists", "createRelease")
           ELSE PcOf("labelExists", "handleReleaseCancelled")
  /\ UNCHANGED << inputs, issue, calls, releaseReqs, assetReqs, slackPosts,
                  releases, assets, delivered, thrown, setFailed >>

\* await octokit.rest.repos.createRelease({ .., draft: true, .. })
EarlyCreateRelease ==
  \E rev \in EarlyRevisions :
    /\ pc = PcOf(rev, "createRelease")
    /\ steps' = Append(steps, pc)
    /\ releaseReqs' = Append(releaseReqs, DraftReleaseRequest(local.tag, local.branch))
    /\ \/ \E id \in ReleaseIds :
            /\ calls' = Append(calls, [op |-> "repos.createRelease", ok |-> TRUE])
            /\ releases' = releases \cup
                 { [id |-> id, html_url |-> HtmlUrl(id),
                    request |-> DraftReleaseRequest(local.tag, local.branch)] }
            /\ local' = [local EXCEPT !.releaseId = id, !.releaseUrl = HtmlUrl(id)]
            /\ ContinueEarly(rev, "createRelease")
       \/ /\ calls' = Append(calls, [op |-> "repos.createRelease", ok |-> FALSE])
          /\ Throw(pc, HttpError("repos.createRelease"))
          /\ UNCHANGED << releases, local >>
    /\ UNCHANGED << inputs, issue, assetReqs, slackPosts, assets, delivered >>

\* postToSlack(body) of the earlier revisions: evaluating octokit throws
\* before any request is made.
earlyPostToSlack(at) ==
  /\ Throw(at, OctokitError)
  /\ UNCHANGED << calls, slackPosts, delivered >>

\* await postToSlack({ approved message }) / await postReleaseApproved(..)
EarlyPostApproved ==
  \E rev \in EarlyRevisions :
    /\ pc = PcOf(rev, "postApproved")
    /\ steps' = Append(steps, pc)
    /\ earlyPostToSlack(pc)
    /\ UNCHANGED << inputs, issue, local, releaseReqs, assetReqs, releases, assets >>

\* await handleReleaseCancelled(..) / await deleteReleaseBranch(..): its label test
EarlyHandleReleaseCancelled ==
  \E rev \in EarlyRevisions :
    /\ pc = PcOf(rev, "handleReleaseCancelled")
    /\ steps' = Append(steps, pc)
    /\ pc' = IF CancelledGuard(rev) THEN PcOf(rev, CancelledFirst(rev)) ELSE "done"
    /\ UNCHANGED << inputs, issue, local, calls, releaseReqs, assetReqs, slackPosts,
                    releases, assets, delivered, thrown, setFailed >>

\* await octokit.rest.git.deleteRef({ owner, repo, ref: `heads/${branch}` })
EarlyDeleteRef ==
  \E rev \in EarlyRevisions :
    /\ pc = PcOf(rev, "deleteRef")
    /\ steps' = Append(steps, pc)
    /\ \E ok \in BOOLEAN :
         /\ calls' = Append(calls, [op |-> "git.deleteRef", ok |-> ok,
                                    ref |-> HeadsRef(local.branch)])
         /\ IF ok THEN ContinueEarly(rev, "deleteRef")
                  ELSE Throw(pc, HttpError("git.deleteRef"))
    /\ UNCHANGED << inputs, issue, local, releaseReqs, assetReqs, slackPosts,
                    releases, assets, delivered >>

\* await postToSlack({ cancelled message })
EarlyPostCancelled ==
  \E rev \in EarlyRevisions :
    /\ pc = PcOf(rev, "postCancelled")
    /\ steps' = Append(steps, pc)
    /\ earlyPostToSlack(pc)
    /\ UNCHANGED << inputs, issue, local, releaseReqs, assetReqs, releases, assets >>

NextEarly ==
  \/ EarlyGetToken
  \/ EarlyValidateReleaseCandidateIssue
  \/ EarlyValidateIssueLabels
  \/ EarlyParseIssueBody
  \/ EarlyHandleReleaseSignedOff
  \/ EarlyCreateRelease
  \/ EarlyPostApproved
  \/ EarlyHandleReleaseCancelled
  \/ EarlyDeleteRef
  \/ EarlyPostCancelled

\* One run of any of the three revisions.
SpecRevisions == (Init \/ InitEarly) /\ [][Next \/ NextEarly]_vars

\* ------------------------------------------------------------ claims
Done == pc = "done"

Ran(step) == \E i \in 1..Len(steps) : steps[i] = step

Ops == { calls[i].op : i \in 1..Len(calls) }

WordApproved == <<"a", "p", "p", "r", "o", "v", "e", "d">>

WordCancelled == <<"c", "a", "n", "c", "e", "l", "l", "e", "d">>

HasApprovalLabel(labels) ==
  \E l \in labels :
    /\ Len(l) >= Len(APPROVED_LABEL_PREFIX)
    /\ \A k \in 1..Len(APPROVED_LABEL_PREFIX) : l[k] = APPROVED_LABEL_PREFIX[k]

\* The run has read the issue and extracted a tag and a branch from its body.
Extracted == local.issue.fetched /\ Ran("parseIssueBody") /\ local.tag # <<>>

\* C1 as stated: for an issue without the label "RC" the run ends failed and
\* no network call at all is ever made, the issue fetch included.
C1_NoCallAtAll ==
  RC_LABEL \notin issue.labels =>
    /\ calls = <<>>
    /\ Done => setFailed # <<>>

\* C1 amended: for an issue without the label "RC" the run ends failed and the
\* only network call it ever makes is the one read that fetches the issue: no
\* release creation, no asset upload, no ref deletion and no webhook post.
C1_OnlyTheIssueFetch ==
  RC_LABEL \notin issue.labels =>
    /\ Len(calls) <= 1
    /\ Ops \subseteq {"issues.get"}
    /\ releaseReqs = <<>> /\ assetReqs = <<>> /\ slackPosts = <<>>
    /\ releases = {} /\ assets = {} /\ delivered = <<>>
    /\ Done => setFailed # <<>>

C1_Witness ==
  /\ Done
  /\ RC_LABEL \notin issue.labels
  /\ HasApprovalLabel(issue.labels)
  /\ calls = << [op |-> "issues.get", ok |-> TRUE] >>
  /\ setFailed = << RCError >>

\* C2: once the run has extracted tag and branch from an issue that carries
\* "RC" and a label starting with "QA Approved", it issues exactly one
\* release-creation call, with draft = false, tag_name = the extracted tag and
\* target_commitish = the extracted branch, and every notification it posts has
\* a header that contains the tag and the word "approved".
C2_ApprovedPath ==
  (Extracted /\ RC_LABEL \in local.labels /\ HasApprovalLabel(local.labels)) =>
    /\ (Done \/ Ran("createRelease")) =>
         /\ Len(releaseReqs) = 1
         /\ releaseReqs[1].draft = FALSE
         /\ releaseReqs[1].tag_name = parseIssueBody(issue.body).tag
         /\ releaseReqs[1].target_commitish = parseIssueBody(issue.body).branch
    /\ \A i \in 1..Len(slackPosts) :
         /\ Includes(slackPosts[i].body.header, parseIssueBody(issue.body).tag)
         /\ Includes(slackPosts[i].body.header, WordApproved)
         /\ ~Includes(slackPosts[i].body.header, WordCancelled)

C2_Witness ==
  /\ Done
  /\ RC_LABEL \in local.labels
  /\ APPROVED_LABEL_PREFIX \notin local.labels
  /\ HasApprovalLabel(local.labels)
  /\ Len(releaseReqs) = 1 /\ releaseReqs[1].draft = FALSE
  /\ Len(delivered) = 1 /\ Includes(delivered[1].header, WordApproved)
  /\ setFailed = <<>>

\* C3 as stated: once the run has extracted tag and branch from an issue that
\* carries "RC" and no label starting with "QA Approved", no release-creation
\* call ever occurs and the run posts a notification whose header contains the
\* tag and the word "cancelled".
C3_RejectedPath ==
  (Extracted /\ RC_LABEL \in local.labels /\ ~HasApprovalLabel(local.labels)) =>
    /\ releaseReqs = <<>>
    /\ ~("repos.createRelease" \in Ops)
    /\ Done =>
         \E i \in 1..Len(slackPosts) :
           /\ Includes(slackPosts[i].body.header, local.tag)
           /\ Includes(slackPosts[i].body.header, WordCancelled)

\* A well-formed line, read off the body independently of parseIssueBody: the
\* line's label with its blanks, one of the kinds, v, eight digits, a dot and
\* one or more digits; its value runs to the end of the digits and of the
\* "-hotfix" suffixes that follow them.
Blanks(label) == [k \in 1..Len(label) |-> IF label[k] = " " THEN "\\s" ELSE label[k]]

RECURSIVE DigitRun(_, _)
DigitRun(s, j) ==
  IF j >= 1 /\ j <= Len(s) /\ s[j] \in Digits THEN 1 + DigitRun(s, j + 1) ELSE 0

LineAt(s, i, label, kind) ==
  MatchSeq(s, i, Blanks(label) \o kind \o <<"v">> \o D8 \o <<".", "\\d">>)

HasLine(s, label, kinds) ==
  \E i \in 1..Len(s) : \E kind \in kinds : LineAt(s, i, label, kind)

Written(s, label, kinds) ==
  LET i == CHOOSE x \in 1..Len(s) :
             /\ \E kind \in kinds : LineAt(s, x, label, kind)
             /\ \A y \in 1..(x - 1) : \A kind \in kinds : ~LineAt(s, y, label, kind)
      kind == CHOOSE k \in kinds : LineAt(s, i, label, k)
      from == i + Len(label)
      dot == from + Len(kind) + 9
      last == dot + DigitRun(s, dot + 1)
  IN SubSeq(s, from, last + StarLen(s, last + 1, HotfixSuffix))

TagKinds == { <<>> }

BranchPaths ==
  { <<"r", "e", "l", "e", "a", "s", "e", "/">>, <<"h", "o", "t", "f", "i", "x", "/">> }

HasTagLine(s) == HasLine(s, TagLinePrefix, TagKinds)

HasBranchLine(s) == HasLine(s, BranchLinePrefix, BranchPaths)

\* C4 as stated: when the body holds a well-formed tag line and a well-formed
\* branch line, parseIssueBody returns exactly the complete tag value and the
\* complete branch value written on them, sequence numbers of two or more
\* digits included.
C4_CompleteValues ==
  (local.issue.fetched /\ Ran("parseIssueBody")
     /\ HasTagLine(local.issue.body) /\ HasBranchLine(local.issue.body)) =>
    /\ ~(\E i \in 1..Len(thrown) : thrown[i].at = "parseIssueBody")
    /\ local.tag = Written(local.issue.body, TagLinePrefix, TagKinds)
    /\ local.branch = Written(local.issue.body, BranchLinePrefix, BranchPaths)

InputAbsent(key) == inputs[key] = ""

\* C6 as stated: if the API token or the Slack webhook URL is absent or empty,
\* run() fails with the missing-input error before any outbound call is made;
\* a missing webhook URL never leaves a release created or an asset uploaded.
C6_FailFast ==
  (InputAbsent("workflow-token") \/ InputAbsent("slack-webhook-url")) =>
    /\ releases = {} /\ assets = {}
    /\ calls = <<>>
    /\ Done => \E key \in {"workflow-token", "slack-webhook-url"} :
                 InputAbsent(key) /\ setFailed = << InputError(key) >>

\* C7: in a run in which a step raises an error, core.setFailed is called
\* exactly once, with that error's message, the failing step is the last step
\* executed, and no step is executed twice.
C7_CaughtOnce ==
  /\ \A i, j \in 1..Len(steps) : i # j => steps[i] # steps[j]
  /\ thrown # <<>> =>
       /\ Len(thrown) = 1
       /\ setFailed = << thrown[1].message >>
       /\ steps[Len(steps)] = thrown[1].at
       /\ Done

C7_Witness ==
  /\ Done
  /\ Len(thrown) = 1 /\ thrown[1].at = "uploadReleaseAsset"
  /\ setFailed = << HttpError("repos.uploadReleaseAsset") >>
  /\ releases # {}

Eligible ==
  /\ RC_LABEL \in issue.labels
  /\ HasTagLine(issue.body) /\ HasBranchLine(issue.body)
  /\ ~InputAbsent("workflow-token") /\ ~InputAbsent("slack-webhook-url")

AllCallsSucceeded == \A i \in 1..Len(calls) : calls[i].ok

\* C8: every run terminates, and the run of an eligible issue ("RC" present,
\* body parsable, both inputs defined) in which every external call succeeds
\* ends with core.setFailed never called and exactly one notification
\* delivered to the webhook.
C8_TerminatesAndSucceeds ==
  /\ <>Done
  /\ [](Done /\ Eligible /\ AllCallsSucceeded =>
          /\ setFailed = <<>>
          /\ Len(delivered) = 1
          /\ Len(slackPosts) = 1)

C8_Witness ==
  /\ Done /\ Eligible /\ AllCallsSucceeded
  /\ local.approved
  /\ setFailed = <<>>
  /\ Len(delivered) = 1
  /\ Len(calls) = 4

\* C9: in a run that has read an issue without the label "RC", the body is
\* never parsed and the failure reported is the "RC" label error, also when
\* the body has no tag line or no branch line.
C9_CandidateCheckFirst ==
  (local.issue.fetched /\ RC_LABEL \notin local.labels) =>
    /\ ~Ran("parseIssueBody")
    /\ local.tag = <<>> /\ local.branch = <<>>
    /\ Done => setFailed = << RCError >>

C9_Witness ==
  /\ Done
  /\ local.issue.fetched
  /\ RC_LABEL \notin local.labels
  /\ ~HasTagLine(local.issue.body)
  /\ setFailed = << RCError >>

ReleaseCreated ==
  \E i \in 1..Len(calls) : calls[i].op = "repos.createRelease" /\ calls[i].ok

\* C10: in a run where release creation succeeded and a later step (asset
\* upload or notification) fails, the run ends failed, the created release
\* still exists, and no compensating call (release deletion, ref deletion or
\* a cancelled notification) is ever issued.
C10_NoRollback ==
  (ReleaseCreated /\ thrown # <<>>) =>
    /\ Done
    /\ setFailed # <<>>
    /\ \E r \in releases : r.id = local.releaseId /\ r.request = releaseReqs[1]
    /\ Ops \subseteq {"issues.get", "repos.createRelease",
                      "repos.uploadReleaseAsset", "axios.post"}
    /\ \A i \in 1..Len(slackPosts) :
         ~Includes(slackPosts[i].body.header, WordCancelled)

C10_Witness ==
  /\ Done
  /\ ReleaseCreated
  /\ Len(thrown) = 1 /\ thrown[1].at = "postApproved"
  /\ InputAbsent("slack-webhook-url")
  /\ releases # {} /\ assets # {}
  /\ setFailed = << InputError("slack-webhook-url") >>

\* The positions in the call log of the calls of one operation.
CallsOf(op) == { i \in 1..Len(calls) : calls[i].op = op }

\* C11: on the approved path the outbound writes happen in the order create
\* release, upload asset, post notification: the asset is named
\* sign-off-metadata.json and goes to the release id the creation returned,
\* the approved notification's button is the URL the creation returned, and it
\* is posted only after the creation and the upload have both succeeded.
C11_ApprovedOrder ==
  /\ \A u \in CallsOf("repos.uploadReleaseAsset") :
       /\ \E c \in CallsOf("repos.createRelease") : c < u /\ calls[c].ok
       /\ Len(assetReqs) = 1
       /\ assetReqs[1].name = "sign-off-metadata.json"
       /\ \E r \in releases : r.id = assetReqs[1].release_id
  /\ \A i \in 1..Len(slackPosts) :
       Includes(slackPosts[i].body.header, WordApproved) =>
         /\ \E r \in releases : r.html_url = slackPosts[i].body.button
         /\ \E c \in CallsOf("repos.createRelease") :
              \E u \in CallsOf("repos.uploadReleaseAsset") :
                \E n \in CallsOf("axios.post") :
                  c < u /\ u < n /\ calls[c].ok /\ calls[u].ok
         /\ assets # {}
  /\ Cardinality(releases) <= 1

C11_Witness ==
  /\ Done
  /\ Len(calls) = 4 /\ AllCallsSucceeded
  /\ calls[2].op = "repos.createRelease"
  /\ calls[3].op = "repos.uploadReleaseAsset"
  /\ calls[4].op = "axios.post"
  /\ Len(delivered) = 1
  /\ delivered[1].button = HtmlUrl(local.releaseId)
  /\ assetReqs[1].release_id = local.releaseId

\* The steps of the earlier revisions, whichever of them runs.
RanEarly(step) == \E rev \in EarlyRevisions : Ran(PcOf(rev, step))

\* The run is one of the latest revision.
LatestRun == Ran("getInput")

\* The approval boolean as the running revision computes it: a label that
\* starts with "QA Approved" in the latest revision, the label "QA Approved"
\* itself in the earlier ones.
ApprovalBoolean ==
  IF LatestRun THEN validateApprovedIssue(issue.labels)
  ELSE labelExists(QA_APPROVED)

\* Something of the rejected outcome has happened: the cancelled notification
\* was attempted or posted, or a ref deletion was requested.
RejectedOutcome ==
  \/ Ran("postCancelled")
  \/ RanEarly("postCancelled")
  \/ CallsOf("git.deleteRef") # {}
  \/ \E i \in 1..Len(slackPosts) : Includes(slackPosts[i].body.header, WordCancelled)

\* C12: each run reaches at most one of the two outcomes and the approval
\* boolean alone chooses it: no run has both a release-creation call and a
\* cancelled notification or a ref deletion, a release-creation call is made
\* only for an approved issue and the rejected outcome only for one that is not
\* approved, and every run creates at most one release and posts at most one
\* notification.
C12_OneOutcome ==
  /\ ~(CallsOf("repos.createRelease") # {} /\ RejectedOutcome)
  /\ CallsOf("repos.createRelease") # {} => ApprovalBoolean
  /\ RejectedOutcome => ~ApprovalBoolean
  /\ Cardinality(CallsOf("repos.createRelease")) <= 1
  /\ Len(releaseReqs) <= 1
  /\ Cardinality(releases) <= 1
  /\ Cardinality(CallsOf("axios.post")) <= 1
  /\ Len(slackPosts) <= 1
  /\ Len(delivered) <= 1

\* A finished run of the approved outcome: one release created, one
\* notification posted, nothing of the rejected outcome.
C12_Witness ==
  /\ Done
  /\ ApprovalBoolean
  /\ Cardinality(releases) = 1
  /\ Len(delivered) = 1
  /\ Includes(delivered[1].header, WordApproved)
  /\ ~RejectedOutcome

\* The positions in steps at which an earlier revision took the given step.
StepsOf(step) ==
  { i \in 1..Len(steps) : \E rev \in EarlyRevisions : steps[i] = PcOf(rev, step) }

DeleteSucceeded == \E d \in CallsOf("git.deleteRef") : calls[d].ok

DeleteFailed == \E d \in CallsOf("git.deleteRef") : ~calls[d].ok

\* C13: in the revisions whose rejected handler deletes the branch, the ref
\* deleted is heads/<branch> of the branch extracted from the body; the
\* cancelled notification is attempted only after that deletion has succeeded;
\* the deletion is requested only for an issue without the label "QA Approved"
\* (the approval label of those revisions); and when the deletion fails the
\* run ends failed without attempting or posting the cancelled notification.
C13_DeleteBeforeNotify ==
  /\ \A d \in CallsOf("git.deleteRef") :
       /\ ~LatestRun
       /\ ~earlyParseIssueBody(issue.body).threw
       /\ calls[d].ref = HeadsRef(earlyParseIssueBody(issue.body).branch)
       /\ ~labelExists(QA_APPROVED)
  /\ Cardinality(CallsOf("git.deleteRef")) <= 1
  /\ \A n \in StepsOf("postCancelled") :
       /\ \E d \in StepsOf("deleteRef") : d < n
       /\ DeleteSucceeded
  /\ ~LatestRun =>
       \A i \in 1..Len(slackPosts) :
         Includes(slackPosts[i].body.header, WordCancelled) => DeleteSucceeded
  /\ DeleteFailed =>
       /\ Done
       /\ setFailed = << HttpError("git.deleteRef") >>
       /\ StepsOf("postCancelled") = {}
       /\ slackPosts = <<>>
       /\ delivered = <<>>

\* A finished run of the rejected handler: heads/<branch> was deleted, then
\* the cancelled notification was attempted.
C13_Witness ==
  /\ Done
  /\ ~labelExists(QA_APPROVED)
  /\ DeleteSucceeded
  /\ \E d \in CallsOf("git.deleteRef") : calls[d].ref = HeadsRef(local.branch)
  /\ local.branch # <<>>
  /\ \E n \in StepsOf("postCancelled") : \E d \in StepsOf("deleteRef") : d < n

=============================================================================
